---- MODULE Spec2Model ----
(***************************************************************************)
(* PixelSocket: the connection lifecycle, reconnect scheduling, keepalive  *)
(* and the inbound frame pipeline of the WebSocket client (the class with  *)
(* the zstd + msgpack decoder), as a state machine whose actions are the   *)
(* public methods, the transport's event handlers, the timer callbacks and *)
(* the resumptions of the asynchronous message handler.                    *)
(***************************************************************************)
EXTENDS Integers, Sequences, FiniteSets, TLC

\* ---------------------------------------------------------------- bounds
MaxManualConnects == 2  \* connect() calls made by the application
MaxTimers == 2          \* timer handles per kind (timeout / interval)
MaxAttempts == 2        \* cap of stats.reconnectAttempts
MaxConfiguredAttempts == 1  \* largest options.maxReconnectAttempts tried
MaxFrames == 1          \* inbound frames over one run
MaxBurst == 2           \* inbound frames over one run of a burst
MaxInflight == 2        \* message handlers suspended at the same time

\* ------------------------------------------------------ program constants
DefaultReconnectDelay == 5000
FallbackDelay == 60000
PingIntervalMs == 20000

\* ------------------------------------------------------------ value sets
\* every transport but the first is opened by a connect() of the application
\* or by a timer armed at the close of an earlier one, so at most
\* MaxManualConnects are alive, plus a closed one this.socket still holds
TransportIds == 1..(MaxManualConnects + 1)
ImageLengths == {2}
TimerIds == 1..MaxTimers
ReadyStates == {"NONE", "CONNECTING", "OPEN", "CLOSING", "CLOSED"}
\* what a binary frame turns into in decompressAndUnpack / handleMessage:
\*   malformed  zstdDecompress or msgpackDecode throws
\*   other      decodes to a falsy value (null, 0, false, "") or to a value
\*              whose .type is not the notification type
\*   nopayload  notification type, .payload undefined or null
\*   image      notification type with a payload object
\* and "text" is a frame whose event.data is a string.
FrameKinds == {"malformed", "other", "nopayload", "image", "text"}

\* the fields of a notification payload that name and fill its file:
\* timestamp (0 stands for an absent or zero one), jobId, fileExtension and
\* the contents of blobData
Idents == [timestamp : {0, 1000}, jobId : {"abc", "xyz"},
           fileExtension : {"png"}, bytes : {"B1", "B2"}]
ScenarioIdent ==
    [timestamp |-> 1000, jobId |-> "abc", fileExtension |-> "png",
     bytes |-> "B1"]
\* Date.now() at the time a file is named
Clock == {7777}
\* the Date objects reachable from this.stats and from a returned snapshot
DateIds == {1, 2}

VARIABLES
    env,                \* what the server sends: frame budget, payload identities
    options,            \* Required<PixelSocketOptions>, fixed by the constructor
    socket,             \* this.socket: 0 is null, else a transport id
    transports,         \* readyState of every WebSocket the manager created
    stats,              \* this.stats
    reconnectTimeout,   \* this.reconnectTimeout: 0 is null, else a timer id
    timers,             \* pending setTimeout callbacks: id -> delay, 0 = none
    pingTimeout,        \* this.pingTimeout: 0 is null, else an interval id
    intervals,          \* armed setInterval callbacks
    shouldReconnect,    \* this.shouldReconnect
    zstdInitialized,    \* this.zstdInitialized
    handlers,           \* suspended handleMessage calls, in arrival order
    dates,              \* the time value of each Date object
    files,              \* the save directory: set of [name, data]
    snapshot,           \* the record the application got from getStats()
    manualConnects,     \* connect() calls made by the application so far
    framesSeen,         \* frames delivered so far
    extracted,          \* frames that decoded to a notification payload object
    last                \* what the last step did (calls made, callbacks run)

vars == <<env, options, socket, transports, stats, reconnectTimeout, timers,
          pingTimeout, intervals, shouldReconnect, zstdInitialized,
          handlers, dates, files, snapshot, manualConnects, framesSeen,
          extracted, last>>

\* binary and text frames the server may send
Frames ==
    [kind : FrameKinds \ {"image"}, imageLength : {0}, blobData : {FALSE},
     id : {ScenarioIdent}]
    \cup [kind : {"image"}, imageLength : ImageLengths, blobData : BOOLEAN,
          id : env.idents]

\* the program's own state, without the observation variables
progVars == <<options, socket, transports, stats, reconnectTimeout, timers,
              pingTimeout, intervals, shouldReconnect, zstdInitialized,
              handlers, dates>>

\* what no step of the manager's lifecycle touches
outerVars == <<env, files, snapshot, manualConnects, framesSeen, extracted>>

NoEvent ==
    [op |-> "none", frame |-> "none", onError |-> 0,
     onDisconnect |-> 0, onConnect |-> 0, onImageReceived |-> 0,
     threw |-> FALSE, sent |-> <<>>, sendFailed |-> FALSE, armed |-> 0,
     accounted |-> FALSE, pos |-> 0, wrote |-> FALSE]

Event(op) == [NoEvent EXCEPT !.op = op]

\* ------------------------------------------------------------ constructor
InitManager ==
    /\ options \in [autoReconnect : BOOLEAN,
                    reconnectDelay : {DefaultReconnectDelay},
                    maxReconnectAttempts : 1..MaxConfiguredAttempts,
                    saveDirectory : BOOLEAN]
    /\ socket = 0
    /\ transports = [t \in TransportIds |-> "NONE"]
    /\ stats = [imagesReceived |-> 0, bytesReceived |-> 0,
                isConnected |-> FALSE, reconnectAttempts |-> 0,
                connectedAt |-> 0]
    /\ reconnectTimeout = 0
    /\ timers = [i \in TimerIds |-> 0]
    /\ pingTimeout = 0
    /\ intervals = {}
    /\ shouldReconnect = TRUE
    /\ zstdInitialized = FALSE
    /\ handlers = <<>>
    /\ dates = [d \in DateIds |-> "fresh"]
    /\ files = {}
    /\ snapshot = [taken |-> FALSE, stats |-> stats]
    /\ manualConnects = 0
    /\ framesSeen = 0
    /\ extracted = 0
    /\ last = NoEvent

\* the server sends the scenario payload {jobId "abc", fileExtension "png",
\* timestamp 1000}
Init ==
    /\ env = [frames |-> MaxFrames, idents |-> {ScenarioIdent}]
    /\ InitManager

\* --------------------------------------------------------------- helpers
\* A closed WebSocket fires no further event; its object stays observable
\* only while this.socket still refers to it.
Collect(trs, sock) ==
    [t \in TransportIds |->
        IF trs[t] = "CLOSED" /\ t # sock THEN "NONE" ELSE trs[t]]

FreeTransports == {t \in TransportIds : transports[t] \in {"NONE", "CLOSED"}}

Min(S) == CHOOSE x \in S : \A y \in S : x <= y

isConnected == stats.isConnected

ReconnectPending == \E i \in TimerIds : timers[i] # 0

\* this.socket!.send(msg): a TypeError when this.socket is null, and
\* WebSocket.send throws in CONNECTING, transmits in OPEN, discards otherwise
SendThrows(trs, sock) == sock = 0 \/ trs[sock] = "CONNECTING"
SendResult(trs, sock, msg) ==
    IF sock # 0 /\ trs[sock] = "OPEN" THEN <<sock, msg>> ELSE <<>>

\* what socket.send can do on an open transport: transmit, or throw (the
\* runtime has lost the connection and the close event is still queued)
SendOutcomes == {"sent", "throws"}

\* clearTimeout / clearInterval of a handle (a stale or null handle is a no-op)
clearTimeout(tm, h) == [i \in TimerIds |-> IF i = h THEN 0 ELSE tm[i]]
clearInterval(iv, h) == iv \ {h}

\* ------------------------------------------------------ scheduleReconnect
\* (mutation: the fallback already at the last bounded attempt)
ReconnectDelayFor_OffByOne(n) ==
    IF n < options.maxReconnectAttempts THEN options.reconnectDelay
    ELSE FallbackDelay

\* delay of the attempt whose number (after the increment) is n
ReconnectDelayFor(n) ==
    IF n <= options.maxReconnectAttempts THEN options.reconnectDelay
    ELSE FallbackDelay

\* the handle setTimeout returns: no pending timer has it (the handle just
\* cleared may be reused, this.reconnectTimeout is overwritten with it)
FreshTimer(tm) == Min({i \in TimerIds : tm[i] = 0})

CanSchedule ==
    /\ stats.reconnectAttempts < MaxAttempts
    /\ \E i \in TimerIds : clearTimeout(timers, reconnectTimeout)[i] = 0

\* (mutation: the attempt is not counted at scheduling time)
scheduleReconnect_NoCount(st, h, tm) ==
    LET cleared == IF h # 0 THEN clearTimeout(tm, h) ELSE tm
        n == st.reconnectAttempts + 1
        id == FreshTimer(cleared)
    IN  [stats |-> st,
         reconnectTimeout |-> id,
         timers |-> [cleared EXCEPT ![id] = ReconnectDelayFor(n)],
         delay |-> ReconnectDelayFor(n)]

\* (mutation: the pending timer is not cancelled before the new one is armed)
scheduleReconnect_NoClear(st, h, tm) ==
    LET n == st.reconnectAttempts + 1
        id == FreshTimer(tm)
    IN  [stats |-> [st EXCEPT !.reconnectAttempts = n],
         reconnectTimeout |-> id,
         timers |-> [tm EXCEPT ![id] = ReconnectDelayFor(n)],
         delay |-> ReconnectDelayFor(n)]

\* the state scheduleReconnect leaves, from stats st, handle h and timers tm
scheduleReconnect(st, h, tm) ==
    LET cleared == IF h # 0 THEN clearTimeout(tm, h) ELSE tm
        n == st.reconnectAttempts + 1
        id == FreshTimer(cleared)
    IN  [stats |-> [st EXCEPT !.reconnectAttempts = n],
         reconnectTimeout |-> id,
         timers |-> [cleared EXCEPT ![id] = ReconnectDelayFor(n)],
         delay |-> ReconnectDelayFor(n)]

\* ------------------------------------------------------ startPingInterval
CanArmInterval ==
    \E i \in TimerIds : i \notin clearInterval(intervals, pingTimeout)

startPingInterval(h, iv) ==
    LET cleared == IF h # 0 THEN clearInterval(iv, h) ELSE iv
        id == Min({i \in TimerIds : i \notin cleared})
    IN  [pingTimeout |-> id, intervals |-> cleared \cup {id}]

\* ---------------------------------------------------------------- connect
\* The body of connect(): new WebSocket(url) either throws synchronously
\* (onError, rethrow) or yields a transport in CONNECTING with the four
\* handlers attached; this.socket is overwritten, the previous transport is
\* neither closed nor detached.
\* (mutation: the catch rethrows without reporting)
connectBody_Silent(op, ok) ==
    IF ok
    THEN /\ FreeTransports # {}
         /\ LET t == Min(FreeTransports)
            IN  /\ transports' = [Collect(transports, t) EXCEPT ![t] = "CONNECTING"]
                /\ socket' = t
                /\ last' = Event(op)
    ELSE /\ UNCHANGED <<socket, transports>>
         /\ last' = [Event(op) EXCEPT !.threw = TRUE]

connectBody(op, ok) ==
    IF ok
    THEN /\ FreeTransports # {}
         /\ LET t == Min(FreeTransports)
            IN  /\ transports' = [Collect(transports, t) EXCEPT ![t] = "CONNECTING"]
                /\ socket' = t
                /\ last' = Event(op)
    ELSE /\ UNCHANGED <<socket, transports>>
         /\ last' = [Event(op) EXCEPT !.onError = 1, !.threw = TRUE]

\* (mutation: connect() clears the stop flag)
connect_ClearsStopFlag ==
    /\ manualConnects < MaxManualConnects
    /\ manualConnects' = manualConnects + 1
    /\ shouldReconnect' = TRUE
    /\ \E ok \in BOOLEAN : connectBody("connect", ok)
    /\ UNCHANGED <<env, files, snapshot, dates, options, stats,
                   reconnectTimeout, timers, pingTimeout, intervals,
                   zstdInitialized, handlers, framesSeen, extracted>>

\* connect() called by the embedding application
connect ==
    /\ manualConnects < MaxManualConnects
    /\ manualConnects' = manualConnects + 1
    /\ \E ok \in BOOLEAN : connectBody("connect", ok)
    /\ UNCHANGED <<env, files, snapshot, dates, options, stats, reconnectTimeout, timers, pingTimeout,
                   intervals, shouldReconnect, zstdInitialized, handlers,
                   framesSeen, extracted>>

\* the setTimeout callback armed by scheduleReconnect: this.connect().catch(log)
reconnectTimerFires ==
    \E i \in TimerIds :
        /\ timers[i] # 0
        /\ timers' = [timers EXCEPT ![i] = 0]
        /\ \E ok \in BOOLEAN : connectBody("reconnectTimer", ok)
        /\ UNCHANGED <<env, files, snapshot, dates, options, stats, reconnectTimeout, pingTimeout,
                       intervals, shouldReconnect, zstdInitialized, handlers,
                       manualConnects, framesSeen, extracted>>

\* ----------------------------------------------------------- socket.onopen
\* new Date(): an object no snapshot refers to
NewDate ==
    Min({d \in DateIds : ~(snapshot.taken /\ snapshot.stats.connectedAt = d)})

onopen(t) ==
    /\ transports[t] = "CONNECTING"
    /\ LET trs == [transports EXCEPT ![t] = "OPEN"]
           d == NewDate
           st == [stats EXCEPT !.isConnected = TRUE, !.connectedAt = d,
                               !.reconnectAttempts = 0]
       IN  /\ transports' = trs
           /\ stats' = st
           /\ dates' = [dates EXCEPT ![d] = "fresh"]
           /\ \E out \in SendOutcomes :
              IF SendThrows(trs, socket)
                 \/ (out = "throws" /\ trs[socket] = "OPEN")
              THEN \* this.socket!.send throws: the rest of the handler is skipped
                   /\ UNCHANGED <<pingTimeout, intervals>>
                   /\ last' = [Event("onopen") EXCEPT !.threw = TRUE,
                                  !.sendFailed = TRUE]
              ELSE /\ CanArmInterval
                   /\ LET p == startPingInterval(pingTimeout, intervals)
                      IN  /\ pingTimeout' = p.pingTimeout
                          /\ intervals' = p.intervals
                   /\ last' = [Event("onopen") EXCEPT !.sent = SendResult(trs, socket, "subscribe"),
                                  !.onConnect = 1]
    /\ UNCHANGED <<env, files, snapshot, options, socket, reconnectTimeout,
                   timers, shouldReconnect, zstdInitialized, handlers,
                   manualConnects, framesSeen, extracted>>

\* ---------------------------------------------------------- socket.onclose
\* (mutation: the close handler gives up after maxReconnectAttempts)
WillReconnect_UntilMax ==
    /\ shouldReconnect
    /\ options.autoReconnect
    /\ stats.reconnectAttempts < options.maxReconnectAttempts

\* (mutation: the close handler ignores the autoReconnect option)
WillReconnect_IgnoresAuto == shouldReconnect

WillReconnect == shouldReconnect /\ options.autoReconnect

onclose(t) ==
    /\ transports[t] \in {"CONNECTING", "OPEN", "CLOSING"}
    /\ transports' = Collect([transports EXCEPT ![t] = "CLOSED"], socket)
    /\ IF WillReconnect
       THEN /\ CanSchedule
            /\ LET r == scheduleReconnect(
                            [stats EXCEPT !.isConnected = FALSE],
                            reconnectTimeout, timers)
               IN  /\ stats' = r.stats
                   /\ reconnectTimeout' = r.reconnectTimeout
                   /\ timers' = r.timers
                   /\ last' = [Event("onclose") EXCEPT !.onDisconnect = 1, !.armed = r.delay]
       ELSE /\ stats' = [stats EXCEPT !.isConnected = FALSE]
            /\ UNCHANGED <<reconnectTimeout, timers>>
            /\ last' = [Event("onclose") EXCEPT !.onDisconnect = 1]
    /\ UNCHANGED <<env, files, snapshot, dates, options, socket, pingTimeout, intervals, shouldReconnect,
                   zstdInitialized, handlers, manualConnects, framesSeen, extracted>>

\* ---------------------------------------------------------- socket.onerror
onerror(t) ==
    /\ transports[t] \in {"CONNECTING", "OPEN", "CLOSING"}
    /\ last' = [Event("onerror") EXCEPT !.onError = 1]
    /\ UNCHANGED progVars
    /\ UNCHANGED outerVars

\* ------------------------------------------------------------- disconnect
\* (mutation: the pending reconnect timer is not cleared)
disconnect_KeepsReconnectTimer ==
    /\ shouldReconnect' = FALSE
    /\ reconnectTimeout' = 0
    /\ intervals' = IF pingTimeout # 0
                    THEN clearInterval(intervals, pingTimeout) ELSE intervals
    /\ pingTimeout' = 0
    /\ transports' =
          IF socket # 0 /\ transports[socket] \in {"CONNECTING", "OPEN"}
          THEN Collect([transports EXCEPT ![socket] = "CLOSING"], 0)
          ELSE Collect(transports, 0)
    /\ socket' = 0
    /\ stats' = [stats EXCEPT !.isConnected = FALSE]
    /\ last' = Event("disconnect")
    /\ UNCHANGED <<env, files, snapshot, dates, options, timers, zstdInitialized, handlers,
                   manualConnects, framesSeen, extracted>>

\* (mutation: the keepalive interval is not cleared)
disconnect_KeepsKeepalive ==
    /\ shouldReconnect' = FALSE
    /\ timers' = IF reconnectTimeout # 0
                 THEN clearTimeout(timers, reconnectTimeout) ELSE timers
    /\ reconnectTimeout' = 0
    /\ pingTimeout' = 0
    /\ transports' =
          IF socket # 0 /\ transports[socket] \in {"CONNECTING", "OPEN"}
          THEN Collect([transports EXCEPT ![socket] = "CLOSING"], 0)
          ELSE Collect(transports, 0)
    /\ socket' = 0
    /\ stats' = [stats EXCEPT !.isConnected = FALSE]
    /\ last' = Event("disconnect")
    /\ UNCHANGED <<env, files, snapshot, dates, options, intervals, zstdInitialized, handlers,
                   manualConnects, framesSeen, extracted>>

disconnect ==
    /\ shouldReconnect' = FALSE
    /\ timers' = IF reconnectTimeout # 0
                 THEN clearTimeout(timers, reconnectTimeout) ELSE timers
    /\ reconnectTimeout' = 0
    /\ intervals' = IF pingTimeout # 0
                    THEN clearInterval(intervals, pingTimeout) ELSE intervals
    /\ pingTimeout' = 0
    /\ transports' =
          IF socket # 0 /\ transports[socket] \in {"CONNECTING", "OPEN"}
          THEN Collect([transports EXCEPT ![socket] = "CLOSING"], 0)
          ELSE Collect(transports, 0)
    /\ socket' = 0
    /\ stats' = [stats EXCEPT !.isConnected = FALSE]
    /\ last' = Event("disconnect")
    /\ UNCHANGED <<env, files, snapshot, dates, options, zstdInitialized, handlers, manualConnects, framesSeen, extracted>>

\* ------------------------------------- the setInterval callback (keepalive)
\* the tick tests this.socket and its readyState, and wraps the send in a
\* try/catch that only logs
\* (mutation: the tick sends without testing the transport)
pingTick_Unguarded ==
    \E i \in intervals :
        /\ last' = [Event("pingTick") EXCEPT !.sent = <<socket, "ping">>]
        /\ UNCHANGED progVars
        /\ UNCHANGED outerVars

pingTick ==
    \E i \in intervals, out \in SendOutcomes :
        /\ last' = IF socket # 0 /\ transports[socket] = "OPEN"
                   THEN IF out = "sent"
                        THEN [Event("pingTick") EXCEPT !.sent = <<socket, "ping">>]
                        ELSE [Event("pingTick") EXCEPT !.sendFailed = TRUE]
                   ELSE Event("pingTick")
        /\ UNCHANGED progVars
        /\ UNCHANGED outerVars

\* ------------------------------------------------------------------- send
\* (mutation: the guard trusts the is-connected flag)
SendAllowed_ByFlag == stats.isConnected

\* the negation of send's guard
SendAllowed == socket # 0 /\ transports[socket] = "OPEN"

send ==
    \E out \in SendOutcomes :
        /\ last' = IF ~SendAllowed
                   THEN [Event("send") EXCEPT !.threw = TRUE]
                   ELSE IF out = "sent"
                   THEN [Event("send") EXCEPT !.sent = <<socket, "data">>]
                   ELSE [Event("send") EXCEPT !.sent = <<socket, "data">>,
                                              !.threw = TRUE, !.sendFailed = TRUE]
        /\ UNCHANGED progVars
        /\ UNCHANGED outerVars

Lifecycle ==
    \/ connect
    \/ reconnectTimerFires
    \/ \E t \in TransportIds : onopen(t)
    \/ \E t \in TransportIds : onclose(t)
    \/ \E t \in TransportIds : onerror(t)
    \/ disconnect
    \/ pingTick
    \/ send

\* ------------------------------------------------------------ processImage
\* The synchronous head of processImage(payload), up to its first await:
\* imagesReceived++ runs before payload.imageLength is read, so an absent
\* payload throws a TypeError after the first counter has moved.
processImage(st, f) ==
    IF f.kind = "nopayload"
    THEN [stats |-> [st EXCEPT !.imagesReceived = @ + 1], threw |-> TRUE]
    ELSE [stats |-> [st EXCEPT !.imagesReceived = @ + 1,
                               !.bytesReceived = @ + f.imageLength],
          threw |-> FALSE]

\* if (this.options.saveDirectory && payload.blobData)
Persists(f) == options.saveDirectory /\ f.blobData

\* ----------------------------------------------------------- handleMessage
\* handleMessage from the return of decompressAndUnpack (engine initialised)
\* to the end of the handler or to the await of Deno.mkdir:
\*   undefined (decode threw) or a falsy value: logged, return;
\*   another type: ignored;
\*   the notification type: processImage(object.payload), whose rejection is
\*   caught by handleMessage and reported with onError.
\* (mutation: the counters move only after the persistence attempt)
AfterUnpack_PersistFirst(st, f) ==
    IF f.kind \in {"malformed", "other"}
    THEN [stats |-> st, onError |-> 0, accounted |-> FALSE, suspend |-> FALSE]
    ELSE LET r == processImage(st, f)
         IN  [stats |-> IF ~r.threw /\ Persists(f) THEN st ELSE r.stats,
              onError |-> IF r.threw THEN 1 ELSE 0,
              accounted |-> TRUE,
              suspend |-> ~r.threw /\ Persists(f)]

AfterUnpack(st, f) ==
    IF f.kind \in {"malformed", "other"}
    THEN [stats |-> st, onError |-> 0, accounted |-> FALSE, suspend |-> FALSE]
    ELSE LET r == processImage(st, f)
         IN  [stats |-> r.stats,
              onError |-> IF r.threw THEN 1 ELSE 0,
              accounted |-> TRUE,
              suspend |-> ~r.threw /\ Persists(f)]

\* the handler of frame f, at position p of the arrival order, has returned
FrameDone(f, p, errs, acc) ==
    [Event("frameDone") EXCEPT !.frame = f.kind, !.onError = errs,
                               !.accounted = acc, !.pos = p]

Remove(seq, i) == SubSeq(seq, 1, i - 1) \o SubSeq(seq, i + 1, Len(seq))

\* the handler list with position p (a new last one, or an existing one)
\* holding frame f suspended at pc
Put(hs, p, f, pc) ==
    IF p = Len(hs) + 1 THEN Append(hs, [frame |-> f, pc |-> pc, name |-> <<>>])
    ELSE [hs EXCEPT ![p] = [frame |-> f, pc |-> pc, name |-> <<>>]]

\* the handler list without position p
Drop(hs, p) == IF p = Len(hs) + 1 THEN hs ELSE Remove(hs, p)

\* the decode and accounting of frame f, whose handler has position p in
\* the arrival order of the handlers still running
Decode(f, p) ==
    LET r == AfterUnpack(stats, f)
    IN  /\ stats' = r.stats
        /\ extracted' = IF f.kind = "image" THEN extracted + 1 ELSE extracted
        /\ IF r.suspend
           THEN /\ handlers' = Put(handlers, p, f, "mkdir")
                /\ last' = [Event("handleMessage") EXCEPT !.frame = f.kind,
                               !.accounted = TRUE, !.pos = p]
           ELSE /\ handlers' = Drop(handlers, p)
                /\ last' = FrameDone(f, p, r.onError, r.accounted)

\* socket.onmessage: a frame is delivered by an open transport.  A text
\* frame is not an ArrayBuffer and falls through handleMessage.  A binary
\* frame enters decompressAndUnpack -> ensureZstdInit: with the engine
\* initialised the awaits are microtasks and the handler runs on to its
\* first I/O await; otherwise it calls zstdInit() and suspends.
onmessage(t, f) ==
    /\ transports[t] = "OPEN"
    /\ framesSeen < env.frames
    /\ framesSeen' = framesSeen + 1
    /\ UNCHANGED manualConnects
    /\ IF f.kind = "text"
       THEN /\ last' = FrameDone(f, Len(handlers) + 1, 0, FALSE)
            /\ UNCHANGED <<stats, handlers, extracted>>
       ELSE IF zstdInitialized
       THEN /\ Len(handlers) < MaxInflight
            /\ Decode(f, Len(handlers) + 1)
       ELSE /\ Len(handlers) < MaxInflight
            /\ handlers' = Put(handlers, Len(handlers) + 1, f, "zstdInit")
            /\ last' = [Event("handleMessage") EXCEPT !.frame = f.kind,
                           !.pos = Len(handlers) + 1]
            /\ UNCHANGED <<stats, extracted>>
    /\ UNCHANGED <<env, files, snapshot, dates, options, socket, transports, reconnectTimeout, timers,
                   pingTimeout, intervals, shouldReconnect, zstdInitialized>>

\* ensureZstdInit resumes: zstdInit() resolved (the flag is set and the
\* handler goes on to decode) or rejected (rethrown, caught and logged by
\* decompressAndUnpack, which returns undefined: the frame is dropped).
zstdInitDone(i, ok) ==
    /\ i \in 1..Len(handlers)
    /\ handlers[i].pc = "zstdInit"
    /\ IF ok
       THEN /\ zstdInitialized' = TRUE
            /\ Decode(handlers[i].frame, i)
       ELSE /\ handlers' = Remove(handlers, i)
            /\ last' = FrameDone(handlers[i].frame, i, 0, FALSE)
            /\ UNCHANGED <<zstdInitialized, stats, extracted>>
    /\ UNCHANGED <<env, files, snapshot, dates, options, socket, transports, reconnectTimeout, timers,
                   pingTimeout, intervals, shouldReconnect, manualConnects,
                   framesSeen>>

\* `${timestamp}_${payload.jobId}.${payload.fileExtension}` with
\* timestamp = payload.timestamp || Date.now(): a zero (or absent) timestamp
\* is falsy and replaced by the clock
FileName(id, now) ==
    <<IF id.timestamp = 0 THEN now ELSE id.timestamp, id.jobId,
      id.fileExtension>>

\* Deno.writeFile(filepath, data): creates or replaces the file
WriteFile(fs, name, data) ==
    {e \in fs : e.name # name} \cup {[name |-> name, data |-> data]}

\* (mutation: a failed Deno.mkdir is swallowed without onError)
mkdirDone_Silent(i, ok) ==
    /\ i \in 1..Len(handlers)
    /\ handlers[i].pc = "mkdir"
    /\ IF ok
       THEN /\ \E now \in Clock :
                 handlers' = [handlers EXCEPT ![i] =
                     [frame |-> @.frame, pc |-> "writeFile",
                      name |-> FileName(@.frame.id, now)]]
            /\ last' = [Event("mkdir") EXCEPT !.frame = handlers[i].frame.kind,
                           !.accounted = TRUE, !.pos = i]
       ELSE /\ handlers' = Remove(handlers, i)
            /\ last' = FrameDone(handlers[i].frame, i, 0, TRUE)
    /\ UNCHANGED <<env, files, snapshot, dates, options, socket, transports,
                   stats, reconnectTimeout, timers, pingTimeout, intervals,
                   shouldReconnect, zstdInitialized, manualConnects,
                   framesSeen, extracted>>

\* processImage resumes after await Deno.mkdir; the file name is computed
\* before the await of Deno.writeFile
mkdirDone(i, ok) ==
    /\ i \in 1..Len(handlers)
    /\ handlers[i].pc = "mkdir"
    /\ IF ok
       THEN /\ \E now \in Clock :
                 handlers' = [handlers EXCEPT ![i] =
                     [frame |-> @.frame, pc |-> "writeFile",
                      name |-> FileName(@.frame.id, now)]]
            /\ last' = [Event("mkdir") EXCEPT !.frame = handlers[i].frame.kind,
                           !.accounted = TRUE, !.pos = i]
       ELSE /\ handlers' = Remove(handlers, i)
            /\ last' = FrameDone(handlers[i].frame, i, 1, TRUE)
    /\ UNCHANGED <<env, files, snapshot, dates, options, socket, transports, stats, reconnectTimeout,
                   timers, pingTimeout, intervals, shouldReconnect,
                   zstdInitialized, manualConnects, framesSeen, extracted>>

\* processImage resumes after await Deno.writeFile
writeFileDone(i, ok) ==
    /\ i \in 1..Len(handlers)
    /\ handlers[i].pc = "writeFile"
    /\ handlers' = Remove(handlers, i)
    /\ files' = IF ok
                THEN WriteFile(files, handlers[i].name, handlers[i].frame.id.bytes)
                ELSE files
    /\ last' = [FrameDone(handlers[i].frame, i, IF ok THEN 0 ELSE 1, TRUE)
                  EXCEPT !.wrote = ok]
    /\ UNCHANGED <<env, snapshot, dates, options, socket, transports, stats, reconnectTimeout,
                   timers, pingTimeout, intervals, shouldReconnect,
                   zstdInitialized, manualConnects, framesSeen, extracted>>

Pipeline ==
    \/ \E t \in TransportIds, f \in Frames : onmessage(t, f)
    \/ \E i \in 1..MaxInflight, ok \in BOOLEAN : zstdInitDone(i, ok)
    \/ \E i \in 1..MaxInflight, ok \in BOOLEAN : mkdirDone(i, ok)
    \/ \E i \in 1..MaxInflight, ok \in BOOLEAN : writeFileDone(i, ok)

\* --------------------------------------------------------------- getStats
\* return { ...this.stats }: a new record with the same field values; the
\* connectedAt field of the copy refers to the same Date object
getStats ==
    /\ snapshot' = [taken |-> TRUE, stats |-> stats]
    /\ last' = Event("getStats")
    /\ UNCHANGED progVars
    /\ UNCHANGED <<env, files, manualConnects, framesSeen, extracted>>

\* the application assigns a field of the record it was given
snapshotAssign ==
    /\ snapshot.taken
    /\ snapshot' = [snapshot EXCEPT !.stats.imagesReceived = 99]
    /\ last' = Event("snapshotAssign")
    /\ UNCHANGED progVars
    /\ UNCHANGED <<env, files, manualConnects, framesSeen, extracted>>

\* the application calls snapshot.connectedAt.setTime(...)
snapshotDateSet ==
    /\ snapshot.taken
    /\ snapshot.stats.connectedAt # 0
    /\ dates' = [dates EXCEPT ![snapshot.stats.connectedAt] = "tampered"]
    /\ last' = Event("snapshotDateSet")
    /\ UNCHANGED <<env, options, socket, transports, stats, reconnectTimeout,
                   timers, pingTimeout, intervals, shouldReconnect,
                   zstdInitialized, handlers, files, snapshot,
                   manualConnects, framesSeen, extracted>>

Next == Lifecycle \/ Pipeline

Spec == Init /\ [][Next]_vars

\* A timer that is armed and not cleared fires: the event loop runs the
\* callback once its delay has elapsed.
SpecFair == Spec /\ WF_vars(reconnectTimerFires)

\* A burst of frames on open transports: several handlers in flight, and
\* payloads of every identity.
InitBurst ==
    /\ env = [frames |-> MaxBurst, idents |-> Idents]
    /\ InitManager

NextBurst ==
    \/ connect
    \/ \E t \in TransportIds : onopen(t)
    \/ Pipeline

SpecBurst == InitBurst /\ [][NextBurst]_vars

\* The application reads the statistics while the connection lives.
NextStats ==
    \/ connect
    \/ \E t \in TransportIds : onopen(t)
    \/ \E t \in TransportIds : onclose(t)
    \/ \E t \in TransportIds, f \in Frames : onmessage(t, f)
    \/ \E i \in 1..MaxInflight, ok \in BOOLEAN : zstdInitDone(i, ok)
    \/ getStats
    \/ snapshotAssign
    \/ snapshotDateSet

SpecStats == Init /\ [][NextStats]_vars

\* ================================================================ claims

\* C1: once disconnect() has been called the stop flag stays set, no
\* reconnect timer is pending or gets armed (not by the close of the
\* transport disconnect() closed, nor by any later close), and no timer
\* callback calls connect().
C1_NoReconnectAfterDisconnect ==
    [][ /\ (last'.op = "disconnect" => ~shouldReconnect')
        /\ (~shouldReconnect =>
               /\ ~shouldReconnect'
               /\ last'.op # "reconnectTimer"
               /\ ~ReconnectPending') ]_vars

\* a close signal arrives after disconnect(), reconnects having been
\* scheduled before it, with auto-reconnect enabled
C1_Witness ==
    /\ last.op = "onclose"
    /\ ~shouldReconnect
    /\ options.autoReconnect
    /\ stats.reconnectAttempts > 0

\* C2: disconnect() never throws and after every call the stop flag is
\* set, no reconnect timer is pending, no keepalive interval is armed,
\* this.socket is null and isConnected is false; a call that follows another
\* one changes nothing.
C2_DisconnectIdempotent ==
    [][ last'.op = "disconnect" =>
          /\ ~last'.threw
          /\ ~shouldReconnect'
          /\ ~ReconnectPending'
          /\ intervals' = {}
          /\ socket' = 0
          /\ ~isConnected'
          /\ (last.op = "disconnect" => UNCHANGED progVars) ]_vars

\* disconnect() has run after a reconnect had been scheduled
C2_Witness ==
    /\ last.op = "disconnect"
    /\ options.autoReconnect
    /\ stats.reconnectAttempts > 0

\* C3: isConnected() is true only while the manager's transport (this.socket)
\* has signalled open and has neither signalled close nor been dropped by
\* disconnect().
C3_ConnectedOnlyWhileOpen ==
    isConnected => (socket # 0 /\ transports[socket] = "OPEN")

C5_AtMostMaxAttempts ==
    stats.reconnectAttempts <= options.maxReconnectAttempts

\* C6: a close that schedules a reconnect increments the counter by one and
\* arms a timer whose delay is reconnectDelay when the new counter is at most
\* maxReconnectAttempts and 60000 otherwise; the counter decreases only in
\* the open handler, to 0.
C6_DelayByAttempt ==
    [][ /\ (last'.op = "onclose" /\ last'.armed # 0 =>
               /\ stats'.reconnectAttempts = stats.reconnectAttempts + 1
               /\ last'.armed =
                     IF stats'.reconnectAttempts <= options.maxReconnectAttempts
                     THEN options.reconnectDelay ELSE 60000
               /\ timers'[reconnectTimeout'] = last'.armed)
        /\ (stats'.reconnectAttempts < stats.reconnectAttempts =>
               /\ last'.op = "onopen"
               /\ stats'.reconnectAttempts = 0)
        /\ (last'.op = "onopen" => stats'.reconnectAttempts = 0) ]_vars

\* an attempt beyond the maximum has been armed with the fallback delay
C6_Witness ==
    /\ last.op = "onclose"
    /\ last.armed = FallbackDelay
    /\ stats.reconnectAttempts = options.maxReconnectAttempts + 1

\* C7: when the handler of a frame that decoded to a notification payload
\* has finished, onImageReceived has been invoked once for it.
C7_ImageCallbackOnce ==
    (last.op = "frameDone" /\ last.frame = "image" /\ last.accounted)
        => last.onImageReceived = 1

\* C8: imagesReceived equals the number of frames that decoded to a
\* notification with a payload object; a frame that fails decode or
\* extraction moves no counter.
C8_StatsCountExtracted ==
    stats.imagesReceived = extracted

\* C9: the handler of a malformed binary frame invokes onError and changes
\* neither the stats nor the connection state.
C9_MalformedReported ==
    [][ (last'.op = "frameDone" /\ last'.frame = "malformed") =>
          /\ last'.onError = 1
          /\ stats' = stats
          /\ UNCHANGED <<socket, transports, reconnectTimeout, timers,
                         pingTimeout, intervals>> ]_vars

\* C10: the handler of a text frame that is neither JSON nor base64 invokes
\* onError once and changes neither the stats nor the connection state.
C10_TextFrameReported ==
    [][ (last'.op = "frameDone" /\ last'.frame = "text") =>
          /\ last'.onError = 1
          /\ stats' = stats
          /\ UNCHANGED <<socket, transports, reconnectTimeout, timers,
                         pingTimeout, intervals>> ]_vars

\* the connection state an error must leave alone
ConnState ==
    <<socket, transports, stats.isConnected, stats.reconnectAttempts,
      reconnectTimeout, timers, pingTimeout, intervals, shouldReconnect>>

ErrorSteps == {"frameDone", "handleMessage", "mkdir", "pingTick", "onerror"}

C12_SendNeedsOpen ==
    [][ last'.op = "send" =>
          /\ UNCHANGED progVars
          /\ IF socket = 0 \/ transports[IF socket = 0 THEN 1 ELSE socket] # "OPEN"
             THEN last'.threw /\ last'.sent = <<>>
             ELSE last'.sent = <<socket, "data">> ]_vars

\* send() has failed on a transport that has signalled close
C12_Witness ==
    /\ last.op = "send"
    /\ last.threw
    /\ socket # 0
    /\ transports[socket] = "CLOSED"

\* C13: a close signal with auto-reconnect disabled or the stop flag set
\* arms no timer and leaves the attempt counter as it was, and with
\* auto-reconnect disabled no timer callback ever calls connect().
C13_NoReconnectWhenDisabled ==
    [][ /\ (last'.op = "onclose" /\ ~(shouldReconnect /\ options.autoReconnect) =>
               /\ last'.armed = 0
               /\ timers' = timers
               /\ ~ReconnectPending'
               /\ stats'.reconnectAttempts = stats.reconnectAttempts
               /\ ~isConnected')
        /\ (~options.autoReconnect => last'.op # "reconnectTimer") ]_vars

\* a close signal has arrived with auto-reconnect disabled
C13_Witness ==
    /\ last.op = "onclose"
    /\ ~options.autoReconnect
    /\ shouldReconnect
    /\ ~ReconnectPending

\* the statistics as the manager and as the holder of a snapshot read them
StatsView(st) ==
    <<st.imagesReceived, st.bytesReceived, st.isConnected,
      st.reconnectAttempts,
      IF st.connectedAt = 0 THEN "unset" ELSE dates[st.connectedAt]>>

SnapshotSteps == {"getStats", "snapshotAssign", "snapshotDateSet"}

\* C14: what the application does to a snapshot leaves the manager's
\* statistics as they were, and what the manager does leaves a snapshot
\* already returned as it was.
C14_SnapshotIndependent ==
    [][ /\ (last'.op \in {"snapshotAssign", "snapshotDateSet"} =>
               StatsView(stats)' = StatsView(stats))
        /\ (last'.op \notin SnapshotSteps =>
               StatsView(snapshot.stats)' = StatsView(snapshot.stats)) ]_vars

\* C15: a completed write leaves in the save directory the file named
\* {timestamp}_{jobId}.{fileExtension} of the payload, holding its bytes.
C15_FileNamedByPayload ==
    [][ (last'.wrote /\ last'.pos \in 1..Len(handlers)) =>
          LET id == handlers[last'.pos].frame.id
          IN  [name |-> <<id.timestamp, id.jobId, id.fileExtension>>,
               data |-> id.bytes] \in files' ]_vars

\* C16: at most one transport created by the manager is not yet closed.
C16_SingleTransport ==
    Cardinality({t \in TransportIds :
                   transports[t] \in {"CONNECTING", "OPEN", "CLOSING"}}) <= 1

\* C17: the close handler leaves no keepalive interval armed.
C17_CloseStopsKeepalive ==
    [][ last'.op = "onclose" => intervals' = {} ]_vars

\* C18: at most one call of the engine's init is outstanding.
C18_SingleFlightInit ==
    Cardinality({i \in 1..Len(handlers) : handlers[i].pc = "zstdInit"}) <= 1

\* C19: a frame is accounted only when no earlier frame is still waiting to
\* be decoded, and its file is written only when no earlier frame still has
\* its write ahead.
C19_ArrivalOrder ==
    [][ /\ (stats'.imagesReceived # stats.imagesReceived =>
               \A j \in 1..Len(handlers) :
                   j < last'.pos => handlers[j].pc # "zstdInit")
        /\ (last'.wrote =>
               \A j \in 1..Len(handlers) :
                   j < last'.pos => handlers[j].pc \notin {"mkdir", "writeFile"})
      ]_vars

\* C20: at most one message handler is in progress.
C20_OneFrameAtATime ==
    Len(handlers) <= 1

C22_OpenSideEffects ==
    [][ \A t \in TransportIds :
          (/\ last'.op = "onopen"
           /\ transports[t] = "CONNECTING"
           /\ transports'[t] = "OPEN") =>
             /\ isConnected'
             /\ stats'.reconnectAttempts = 0
             /\ stats'.connectedAt # 0
             /\ (last'.onConnect = 1 =>
                    /\ last'.sent = <<t, "subscribe">>
                    /\ pingTimeout' \in intervals') ]_vars

\* C23: after a connect() made by the reconnect timer, with auto-reconnect
\* enabled and the stop flag clear, either this.socket is a transport still
\* connecting (whose failure will signal close) or a reconnect timer is
\* pending.
C23_FailedRetryRetries ==
    [][ (last'.op = "reconnectTimer" /\ shouldReconnect /\ options.autoReconnect) =>
          \/ (socket' # 0 /\ transports'[socket'] = "CONNECTING" /\ ~last'.threw)
          \/ ReconnectPending' ]_vars

\* C24: the counter moves only when a reconnect is scheduled, by one and
\* in the step that arms the timer, or when the open handler sets it to 0.
C24_CounterCountsSchedules ==
    [][ /\ (last'.armed # 0 =>
               /\ stats'.reconnectAttempts = stats.reconnectAttempts + 1
               /\ timers'[reconnectTimeout'] # 0)
        /\ (stats'.reconnectAttempts # stats.reconnectAttempts =>
               \/ last'.armed # 0
               \/ (last'.op = "onopen" /\ stats'.reconnectAttempts = 0))
      ]_vars

\* one reconnect has been scheduled since the last open
C24_Witness ==
    /\ last.op = "onclose"
    /\ last.armed # 0
    /\ stats.connectedAt # 0
    /\ stats.reconnectAttempts = 1

\* C25: at most one reconnect timer is pending, and it is the one
\* this.reconnectTimeout holds.
C25_OnePendingTimer ==
    /\ Cardinality({i \in TimerIds : timers[i] # 0}) <= 1
    /\ \A i \in TimerIds : timers[i] # 0 => reconnectTimeout = i

\* a second close in a row has rescheduled while another transport lives
C25_Witness ==
    /\ last.op = "onclose"
    /\ stats.reconnectAttempts = 2
    /\ ReconnectPending
    /\ \E t \in TransportIds : transports[t] \in {"CONNECTING", "OPEN"}

\* C26: a keepalive tick changes no state, sends nothing unless this.socket
\* is an OPEN transport, and then sends the ping on that transport only.
C26_PingOnlyWhenOpen ==
    [][ last'.op = "pingTick" =>
          /\ UNCHANGED progVars
          /\ IF socket # 0 /\ transports[IF socket = 0 THEN 1 ELSE socket] = "OPEN"
             THEN last'.sent \in {<<>>, <<socket, "ping">>}
             ELSE last'.sent = <<>> /\ ~last'.sendFailed ]_vars

\* a tick has fired on a transport that had signalled close
C26_Witness ==
    /\ last.op = "pingTick"
    /\ last.sent = <<>>
    /\ socket # 0
    /\ transports[socket] = "CLOSED"

\* C27: a keepalive tick whose send fails reports it with onError and
\* leaves the connection state unchanged.
C27_PingFailureReported ==
    [][ (last'.op = "pingTick" /\ last'.sendFailed) =>
          (last'.onError = 1 /\ ConnState' = ConnState) ]_vars

\* C28: the step in which Deno.mkdir or Deno.writeFile fails for a frame
\* invokes onError once and leaves the stats, with the frame's increments,
\* and the connection state unchanged.
C28_PersistFailureReported ==
    [][ (/\ last'.op = "frameDone"
         /\ last'.pos \in 1..Len(handlers)
         /\ handlers[last'.pos].pc \in {"mkdir", "writeFile"}
         /\ ~last'.wrote) =>
           /\ last'.onError = 1
           /\ ~last'.threw
           /\ stats' = stats
           /\ stats.imagesReceived >= 1
           /\ ConnState' = ConnState ]_vars

\* the persistence of an accounted image frame has failed
C28_Witness ==
    /\ last.op = "frameDone"
    /\ last.frame = "image"
    /\ last.onError = 1
    /\ ~last.wrote
    /\ stats.imagesReceived = 1

\* C29: connect() leaves the stop flag as it was, and a close signal that
\* arrives with the stop flag set arms no timer and counts no attempt.
C29_StopFlagIsPermanent ==
    [][ /\ (last'.op = "connect" => shouldReconnect' = shouldReconnect)
        /\ (last'.op = "onclose" /\ ~shouldReconnect =>
               /\ last'.armed = 0
               /\ timers' = timers
               /\ stats'.reconnectAttempts = stats.reconnectAttempts) ]_vars

\* the transport of a connect() made after disconnect() has closed
C29_Witness ==
    /\ last.op = "onclose"
    /\ ~shouldReconnect
    /\ options.autoReconnect
    /\ socket # 0
    /\ transports[socket] = "CLOSED"
    /\ ~ReconnectPending

\* C30: while disconnect() has been called and connect() has not been
\* called since (this.socket is null, the stop flag set) the counters
\* imagesReceived and bytesReceived do not move.
C30_NoAccountingAfterDisconnect ==
    [][ (socket = 0 /\ ~shouldReconnect /\ socket' = 0) =>
          /\ stats'.imagesReceived = stats.imagesReceived
          /\ stats'.bytesReceived = stats.bytesReceived ]_vars

\* C31: the close signal of a transport that disconnect() closed runs the
\* close handler, which invokes onDisconnect once, finds is-connected
\* already false and schedules no reconnect; every close signal invokes
\* onDisconnect once.
C31_DisconnectCloseNotifies ==
    [][ /\ (last'.op = "onclose" => last'.onDisconnect = 1)
        /\ \A t \in TransportIds :
              (/\ last'.op = "onclose"
               /\ transports[t] = "CLOSING"
               /\ transports'[t] # "CLOSING") =>
                 /\ ~isConnected
                 /\ ~isConnected'
                 /\ last'.armed = 0
                 /\ ~ReconnectPending' ]_vars

====
